---- MODULE Spec2Model ----
(***************************************************************************)
(* Handwrought: fog-of-war reveal tracking, the passability oracle, the    *)
(* A* pathfinder with its index-tracked binary heap, and the movement      *)
(* driver that repaths when new cells are revealed.                        *)
(*                                                                         *)
(* Numbers.  Heights are integer levels.  Path costs are kept in           *)
(* thousandths: an axis step costs 1000 and a diagonal step 1414           *)
(* (Math.SQRT2).  For the path lengths possible on the grids modelled here *)
(* two sums a + b*sqrt(2) compare the same way as 1000a + 1414b, and the   *)
(* Float32Array rounding of gScore/fScore (below 2^-20) cannot reorder two *)
(* sums that differ as reals.                                              *)
(***************************************************************************)
EXTENDS Integers, Sequences, FiniteSets, TLC

\* ------------------------------------------------------------------ bounds
MaxWidth == 3
MaxHeight == 3
MaxLevel == 2
MaxRadius == 1
RevealWidth == 2
RevealHeight == 2
HalfCell == 1
GenWidth == 4
GenHeight == 2
MaxCalls == 3
MaxParamLen == 4

\* --------------------------------------------------------------- constants
\* GroundType
Water == 0
Sand == 1
Soil == 2
Rock == 3
\* gScore/fScore fill value
Inf == 1000000000
\* neighbour costs 1 and Math.SQRT2, in thousandths
AxisCost == 1000
DiagCost == 1414
\* worldConfig.seaLevel and pathOptions.maxSlope, in height levels
SeaLevel == 1
MaxSlope == 1

VARIABLES
  world,         \* WorldData: width, height, heightmap, ground, objects
  revealed,      \* the reveal mask (Uint8Array, 0/1 per cell index)
  blockedMask,   \* denseForestMask (Uint8Array, 0/1 per cell index)
  currentCell,   \* driver: the agent's cell
  pos,           \* driver: player.position (x, z), HalfCell units
  targetCell,    \* driver: pending goal or Null
  path,          \* driver: current path (sequence of GridPoint)
  pathStep,      \* driver: index of the next path point (0-based as in code)
  needsRepath,   \* driver: repath flag
  returned,      \* history: how often revealAround has returned each index
  minCost,       \* reference: least cost of allowed steps between cells
  call           \* the last operation: its name, arguments and results

vars == <<world, revealed, blockedMask, currentCell, pos, targetCell, path,
          pathStep, needsRepath, returned, minCost, call>>

Null == [null |-> TRUE]

Point(x, y) == [x |-> x, y |-> y]

Abs(n) == IF n < 0 THEN -n ELSE n

Min(a, b) == IF a < b THEN a ELSE b

Max(a, b) == IF a > b THEN a ELSE b

\* ------------------------------------------------------------ world access
getIndex(width, x, y) == x + y * width

inBounds(w, x, y) == x >= 0 /\ y >= 0 /\ x < w.width /\ y < w.height

getHeight(w, x, y) ==
  IF ~inBounds(w, x, y) THEN 0 ELSE w.heightmap[getIndex(w.width, x, y)]

getGround(w, x, y) ==
  IF ~inBounds(w, x, y) THEN Water ELSE w.ground[getIndex(w.width, x, y)]

cellHasObject(w, x, y) ==
  \E i \in 1..Len(w.objects) : w.objects[i].x = x /\ w.objects[i].y = y

Cells(w) == 0..(w.width * w.height - 1)

CellX(w, i) == i % w.width

CellY(w, i) == i \div w.width

\* largest height difference to the four axis neighbours inside the grid
getSlopeAt(w, x, y) ==
  LET center == w.heightmap[getIndex(w.width, x, y)]
      delta(nx, ny) ==
        IF nx < 0 \/ ny < 0 \/ nx >= w.width \/ ny >= w.height THEN 0
        ELSE Abs(center - w.heightmap[getIndex(w.width, nx, ny)])
  IN Max(Max(delta(x + 1, y), delta(x - 1, y)),
         Max(delta(x, y + 1), delta(x, y - 1)))

\* ---------------------------------------------------------- reveal tracker
\* mutant: the test of the mask entry left out
isUnrevealedAlways(mask, index) == TRUE

\* revealedMask[index] === 0
isUnrevealed(mask, index) == mask[index] = 0

\* mutant: the cells at exactly the radius are left out
outsideCircleAtRadius(dx, dy, radius) == dx * dx + dy * dy >= radius * radius

\* mutant: the whole square is taken
outsideCircleNever(dx, dy, radius) == FALSE

\* dx * dx + dy * dy > radius * radius
outsideCircle(dx, dy, radius) == dx * dx + dy * dy > radius * radius

\* mutant: the index is listed but the mask entry is not written
markRevealedNot(mask, index) == mask

\* revealedMask[index] = 1
markRevealed(mask, index) == [mask EXCEPT ![index] = 1]

\* The double loop of revealAround, flattened: iteration k visits
\* dy = -radius + k \div side, dx = -radius + k % side, side = 2*radius + 1.
\* st = [mask, newly].
RECURSIVE revealLoop(_, _, _, _, _)
revealLoop(w, st, center, radius, k) ==
  LET side == 2 * radius + 1
      dy == (k \div side) - radius
      dx == (k % side) - radius
      x == center.x + dx
      y == center.y + dy
      index == getIndex(w.width, x, y)
  IN IF k >= side * side THEN st
     ELSE IF outsideCircle(dx, dy, radius)
       THEN revealLoop(w, st, center, radius, k + 1)
     ELSE IF ~inBounds(w, x, y)
       THEN revealLoop(w, st, center, radius, k + 1)
     ELSE IF isUnrevealed(st.mask, index)
       THEN revealLoop(w, [mask |-> markRevealed(st.mask, index),
                           newly |-> Append(st.newly, index)],
                       center, radius, k + 1)
     ELSE revealLoop(w, st, center, radius, k + 1)

\* mutant: the mask is rebuilt from nothing on every call
revealAroundFresh(w, mask, center, radius) ==
  revealLoop(w, [mask |-> [i \in DOMAIN mask |-> 0], newly |-> <<>>],
             center, radius, 0)

revealAround(w, mask, center, radius) ==
  IF radius < 0 THEN [mask |-> mask, newly |-> <<>>]
  ELSE revealLoop(w, [mask |-> mask, newly |-> <<>>], center, radius, 0)

\* mutant: the object test left out
isCellPassableNoObject(w, mask, x, y, options) ==
  IF ~inBounds(w, x, y) THEN FALSE
  ELSE LET index == getIndex(w.width, x, y)
       IN IF mask[index] = 0 THEN FALSE
          ELSE IF options.blockedMask # Null /\ options.blockedMask[index] = 1
            THEN FALSE
          ELSE IF getGround(w, x, y) = Water THEN FALSE
          ELSE TRUE

\* mutant: the blockedMask test left out
isCellPassableNoBlocked(w, mask, x, y, options) ==
  IF ~inBounds(w, x, y) THEN FALSE
  ELSE LET index == getIndex(w.width, x, y)
       IN IF mask[index] = 0 THEN FALSE
          ELSE IF getGround(w, x, y) = Water THEN FALSE
          ELSE IF cellHasObject(w, x, y) THEN FALSE
          ELSE TRUE

\* mutant: the ground test left out
isCellPassableNoWater(w, mask, x, y, options) ==
  IF ~inBounds(w, x, y) THEN FALSE
  ELSE LET index == getIndex(w.width, x, y)
       IN IF mask[index] = 0 THEN FALSE
          ELSE IF options.blockedMask # Null /\ options.blockedMask[index] = 1
            THEN FALSE
          ELSE IF cellHasObject(w, x, y) THEN FALSE
          ELSE TRUE

\* ------------------------------------------------------- passability oracle
\* options = [maxSlope, allowDiagonal, blockedMask]; blockedMask is Null when
\* the caller supplies none.
isCellPassable(w, mask, x, y, options) ==
  IF ~inBounds(w, x, y) THEN FALSE
  ELSE LET index == getIndex(w.width, x, y)
       IN IF mask[index] = 0 THEN FALSE
          ELSE IF options.blockedMask # Null /\ options.blockedMask[index] = 1
            THEN FALSE
          ELSE IF getGround(w, x, y) = Water THEN FALSE
          ELSE IF cellHasObject(w, x, y) THEN FALSE
          ELSE TRUE

\* dx + dy + (SQRT2 - 2) * min(dx, dy), in thousandths
\* mutant: the blockedMask test left out
isCellStandableNoBlocked(w, x, y, blocked) ==
  IF getGround(w, x, y) = Water THEN FALSE
  ELSE IF cellHasObject(w, x, y) THEN FALSE
  ELSE TRUE

\* The target test of the driver.  It takes no reveal mask.  Outside the grid
\* getGround answers Water, so blockedMask is never read there.
isCellStandable(w, x, y, blocked) ==
  IF getGround(w, x, y) = Water THEN FALSE
  ELSE IF blocked[getIndex(w.width, x, y)] = 1 THEN FALSE
  ELSE IF cellHasObject(w, x, y) THEN FALSE
  ELSE TRUE

heuristic(x0, y0, x1, y1) ==
  LET dx == Abs(x0 - x1)
      dy == Abs(y0 - y1)
  IN AxisCost * (dx + dy) + (DiagCost - 2 * AxisCost) * Min(dx, dy)

\* ------------------------------------------------------------------ MinHeap
\* hs = [heap, positions]: heap is the array (slot i of the code is heap[i+1]),
\* positions[node] is the node's slot or -1.  scores is fScore.
swap(hs, a, b) ==
  LET temp == hs.heap[a + 1]
      other == hs.heap[b + 1]
  IN [heap |-> [hs.heap EXCEPT ![a + 1] = other, ![b + 1] = temp],
      positions |-> [hs.positions EXCEPT ![other] = a, ![temp] = b]]

RECURSIVE bubbleUp(_, _, _)
bubbleUp(hs, scores, i) ==
  IF i <= 0 THEN hs
  ELSE LET parent == (i - 1) \div 2
           nodeScore == scores[hs.heap[i + 1]]
           parentScore == scores[hs.heap[parent + 1]]
       IN IF nodeScore >= parentScore THEN hs
          ELSE bubbleUp(swap(hs, i, parent), scores, parent)

RECURSIVE bubbleDown(_, _, _)
bubbleDown(hs, scores, i) ==
  LET length == Len(hs.heap)
      left == i * 2 + 1
      right == i * 2 + 2
      afterLeft == IF left < length /\ scores[hs.heap[left + 1]] < scores[hs.heap[i + 1]]
                   THEN left ELSE i
      smallest == IF right < length
                     /\ scores[hs.heap[right + 1]] < scores[hs.heap[afterLeft + 1]]
                  THEN right ELSE afterLeft
  IN IF i >= length THEN hs
     ELSE IF smallest = i THEN hs
     ELSE bubbleDown(swap(hs, i, smallest), scores, smallest)

heapPush(hs, scores, node) ==
  IF hs.positions[node] # -1 THEN hs
  ELSE bubbleUp([heap |-> Append(hs.heap, node),
                 positions |-> [hs.positions EXCEPT ![node] = Len(hs.heap)]],
                scores, Len(hs.heap))

\* mutant: update appends the node whether or not it is in the heap already
heapUpdatePushAgain(hs, scores, node) ==
  bubbleUp([heap |-> Append(hs.heap, node),
            positions |-> [hs.positions EXCEPT ![node] = Len(hs.heap)]],
           scores, Len(hs.heap))

\* mutant: update of a node that is not in the heap does nothing
heapUpdateNoPush(hs, scores, node) ==
  IF hs.positions[node] = -1 THEN hs
  ELSE bubbleUp(hs, scores, hs.positions[node])

heapUpdate(hs, scores, node) ==
  IF hs.positions[node] = -1 THEN heapPush(hs, scores, node)
  ELSE bubbleUp(hs, scores, hs.positions[node])

\* pop: [root, hs]; root = -1 on an empty heap
heapPop(hs, scores) ==
  IF Len(hs.heap) = 0 THEN [root |-> -1, hs |-> hs]
  ELSE LET root == hs.heap[1]
           last == hs.heap[Len(hs.heap)]
           rest == SubSeq(hs.heap, 1, Len(hs.heap) - 1)
           cleared == [hs.positions EXCEPT ![root] = -1]
       IN IF Len(rest) > 0
            THEN [root |-> root,
                  hs |-> bubbleDown([heap |-> [rest EXCEPT ![1] = last],
                                     positions |-> [cleared EXCEPT ![last] = 0]],
                                    scores, 0)]
            ELSE [root |-> root, hs |-> [heap |-> rest, positions |-> cleared]]

\* --------------------------------------------------------------- pathfinder
\* [dx, dy, cost]
AxisNeighbors ==
  << <<1, 0, AxisCost>>, <<-1, 0, AxisCost>>, <<0, 1, AxisCost>>,
     <<0, -1, AxisCost>> >>

DiagonalNeighbors ==
  << <<1, 1, DiagCost>>, <<-1, 1, DiagCost>>, <<1, -1, DiagCost>>,
     <<-1, -1, DiagCost>> >>

AllNeighbors == AxisNeighbors \o DiagonalNeighbors

Neighbors(allowDiagonal) == IF allowDiagonal THEN AllNeighbors ELSE AxisNeighbors

RECURSIVE reconstructLoop(_, _, _, _)
reconstructLoop(cameFrom, node, width, acc) ==
  IF node = -1 THEN acc
  ELSE reconstructLoop(cameFrom, cameFrom[node], width,
                       Append(acc, Point(node % width, node \div width)))

Reverse(s) == [i \in 1..Len(s) |-> s[Len(s) + 1 - i]]

\* mutant: the path left in goal-to-start order
reconstructPathNoReverse(cameFrom, current, width) ==
  reconstructLoop(cameFrom, current, width, <<>>)

reconstructPath(cameFrom, current, width) ==
  Reverse(reconstructLoop(cameFrom, current, width, <<>>))

\* mutant: the height difference without Math.abs
edgeSlopeSigned(w, cx, cy, nx, ny) == getHeight(w, cx, cy) - getHeight(w, nx, ny)

\* Math.abs(getHeight(current) - getHeight(neighbor))
edgeSlope(w, cx, cy, nx, ny) == Abs(getHeight(w, cx, cy) - getHeight(w, nx, ny))

\* slope > options.maxSlope: the edge is dropped
tooSteep(slope, maxSlope) == slope > maxSlope

\* mutant: every open neighbour is rewritten, better or not
improvesAlways(tentativeG, neighborScore) == TRUE

\* tentativeG < neighborScore
improves(tentativeG, neighborScore) == tentativeG < neighborScore

\* One pass of the neighbour loop for the popped node `current`, from the
\* k-th neighbour on.  s = [gScore, fScore, cameFrom, closed, hs] plus the
\* counters pushes, pops and the log popLog of popped nodes.
RECURSIVE relaxLoop(_, _, _, _, _, _, _)
relaxLoop(w, mask, goal, options, s, current, k) ==
  LET nbrs == Neighbors(options.allowDiagonal)
      currentX == current % w.width
      currentY == current \div w.width
      nx == currentX + nbrs[k][1]
      ny == currentY + nbrs[k][2]
      cost == nbrs[k][3]
      neighborIndex == getIndex(w.width, nx, ny)
      slope == edgeSlope(w, currentX, currentY, nx, ny)
      tentativeG == s.gScore[current] + cost
      fNew == [s.fScore EXCEPT ![neighborIndex] =
                 tentativeG + heuristic(nx, ny, goal.x, goal.y)]
      wasOpen == s.hs.positions[neighborIndex] # -1
      relaxed == [s EXCEPT !.cameFrom[neighborIndex] = current,
                           !.gScore[neighborIndex] = tentativeG,
                           !.fScore = fNew,
                           !.hs = heapUpdate(s.hs, fNew, neighborIndex),
                           !.pushes = IF wasOpen THEN @ ELSE @ + 1]
  IN IF k > Len(nbrs) THEN s
     ELSE IF ~inBounds(w, nx, ny)
       THEN relaxLoop(w, mask, goal, options, s, current, k + 1)
     ELSE IF s.closed[neighborIndex] = 1
       THEN relaxLoop(w, mask, goal, options, s, current, k + 1)
     ELSE IF ~isCellPassable(w, mask, nx, ny, options)
       THEN relaxLoop(w, mask, goal, options, s, current, k + 1)
     ELSE IF tooSteep(slope, options.maxSlope)
       THEN relaxLoop(w, mask, goal, options, s, current, k + 1)
     ELSE IF improves(tentativeG, s.gScore[neighborIndex])
       THEN relaxLoop(w, mask, goal, options, relaxed, current, k + 1)
     ELSE relaxLoop(w, mask, goal, options, s, current, k + 1)

\* The while loop of findPath.  Result: [found, path, pushes, pops, popLog];
\* found = FALSE stands for the null return.
RECURSIVE searchLoop(_, _, _, _, _)
searchLoop(w, mask, goal, options, s) ==
  LET goalIndex == getIndex(w.width, goal.x, goal.y)
      popped == heapPop(s.hs, s.fScore)
      current == popped.root
      afterPop == [s EXCEPT !.hs = popped.hs, !.pops = @ + 1]
      closedCur == [afterPop EXCEPT !.closed[current] = 1]
  IN IF Len(s.hs.heap) = 0 \/ current = -1
       THEN [found |-> FALSE, path |-> <<>>, pushes |-> s.pushes,
             pops |-> s.pops, popLog |-> s.popLog]
     ELSE IF current = goalIndex
       THEN [found |-> TRUE,
             path |-> reconstructPath(s.cameFrom, current, w.width),
             pushes |-> s.pushes, pops |-> s.pops + 1,
             popLog |-> Append(s.popLog, current)]
     ELSE searchLoop(w, mask, goal, options,
                     relaxLoop(w, mask, goal, options,
                               [closedCur EXCEPT !.popLog = Append(@, current)],
                               current, 1))

\* mutant: only the reveal check on the goal
goalRejectedUnrevealedOnly(w, mask, goal, options) ==
  mask[getIndex(w.width, goal.x, goal.y)] = 0

\* The two goal checks made before any allocation: revealed, then passable.
goalRejected(w, mask, goal, options) ==
  \/ mask[getIndex(w.width, goal.x, goal.y)] = 0
  \/ ~isCellPassable(w, mask, goal.x, goal.y, options)

NoPath == [found |-> FALSE, path |-> <<>>, pushes |-> 0, pops |-> 0, popLog |-> <<>>]

findPath(w, mask, start, goal, options) ==
  IF ~inBounds(w, start.x, start.y) \/ ~inBounds(w, goal.x, goal.y) THEN NoPath
  ELSE IF goalRejected(w, mask, goal, options) THEN NoPath
  ELSE LET startIndex == getIndex(w.width, start.x, start.y)
           fScore == [i \in Cells(w) |->
                        IF i = startIndex
                          THEN heuristic(start.x, start.y, goal.x, goal.y)
                          ELSE Inf]
           s0 == [gScore |-> [i \in Cells(w) |-> IF i = startIndex THEN 0 ELSE Inf],
                  fScore |-> fScore,
                  cameFrom |-> [i \in Cells(w) |-> -1],
                  closed |-> [i \in Cells(w) |-> 0],
                  hs |-> heapPush([heap |-> <<>>,
                                   positions |-> [i \in Cells(w) |-> -1]],
                                  fScore, startIndex),
                  pushes |-> 1, pops |-> 0, popLog |-> <<>>]
       IN searchLoop(w, mask, goal, options, s0)

\* ------------------------------------------------- reference definitions
\* Passability as the specification words it.
PassableSpec(w, mask, blocked, x, y) ==
  /\ x >= 0 /\ y >= 0 /\ x < w.width /\ y < w.height
  /\ mask[x + y * w.width] = 1
  /\ (blocked # Null => blocked[x + y * w.width] = 0)
  /\ w.ground[x + y * w.width] # Water
  /\ ~\E i \in 1..Len(w.objects) : w.objects[i].x = x /\ w.objects[i].y = y

\* a and b are neighbours: 4-connected, or 8-connected when diagonals count
Adjacent(a, b, allowDiagonal) ==
  /\ Max(Abs(a.x - b.x), Abs(a.y - b.y)) = 1
  /\ (allowDiagonal \/ Abs(a.x - b.x) + Abs(a.y - b.y) = 1)

StepCost(a, b) == IF a.x # b.x /\ a.y # b.y THEN DiagCost ELSE AxisCost

HeightOf(w, p) == w.heightmap[p.x + p.y * w.width]

\* a step from cell a into cell b that the constraints allow
StepAllowed(w, mask, options, a, b) ==
  /\ Adjacent(a, b, options.allowDiagonal)
  /\ PassableSpec(w, mask, options.blockedMask, b.x, b.y)
  /\ Abs(HeightOf(w, a) - HeightOf(w, b)) <= options.maxSlope

MinOf(S) == CHOOSE m \in S : \A n \in S : m <= n

PointOf(w, i) == Point(i % w.width, i \div w.width)

\* the cells around cell index i
Around(w, i) ==
  {j \in {i - w.width - 1, i - w.width, i - w.width + 1, i - 1, i + 1,
          i + w.width - 1, i + w.width, i + w.width + 1} :
     /\ j \in Cells(w)
     /\ Abs(CellX(w, j) - CellX(w, i)) <= 1}

\* StepsInto(..)[i + 1]: the allowed steps into cell index i, each as
\* <<cell index it leaves, cost>>
RECURSIVE StepsInto(_, _, _, _)
StepsInto(w, mask, options, i) ==
  IF i >= w.width * w.height THEN <<>>
  ELSE <<{<<j, StepCost(PointOf(w, j), PointOf(w, i))>> :
            j \in {r \in Around(w, i) :
                     StepAllowed(w, mask, options, PointOf(w, r), PointOf(w, i))}}>>
       \o StepsInto(w, mask, options, i + 1)

\* Bellman-Ford.  d is a sequence: d[i + 1] is the least cost found so far of
\* reaching cell index i.  One round, from cell index i on:
RECURSIVE RelaxRound(_, _, _)
RelaxRound(steps, d, i) ==
  IF i >= Len(d) THEN <<>>
  ELSE <<MinOf({d[i + 1]} \cup {d[e[1] + 1] + e[2] : e \in steps[i + 1]})>>
       \o RelaxRound(steps, d, i + 1)

\* rounds until nothing changes, at most k of them
RECURSIVE RelaxAll(_, _, _)
RelaxAll(steps, d, k) ==
  LET next == RelaxRound(steps, d, 0)
  IN IF k = 0 \/ next = d THEN d ELSE RelaxAll(steps, next, k - 1)

RECURSIVE StartCosts(_, _, _)
StartCosts(n, start, i) ==
  IF i >= n THEN <<>>
  ELSE <<IF i = start THEN 0 ELSE Inf>> \o StartCosts(n, start, i + 1)

\* MinCostRows(..)[s + 1][g + 1]: the least cost of a sequence of allowed
\* steps from cell index s to cell index g, at least Inf if there is none
RECURSIVE MinCostRows(_, _, _)
MinCostRows(steps, n, start) ==
  IF start >= n THEN <<>>
  ELSE <<RelaxAll(steps, StartCosts(n, start, 0), n)>>
       \o MinCostRows(steps, n, start + 1)

MinCostsOf(w, mask, options) ==
  MinCostRows(StepsInto(w, mask, options, 0), w.width * w.height, 0)

\* the table of least costs: [1 without diagonals, 2 with][start index + 1]
\* [goal index + 1]
MinCostTable(w, mask, blocked) ==
  <<MinCostsOf(w, mask, [maxSlope |-> MaxSlope, allowDiagonal |-> FALSE,
                         blockedMask |-> blocked]),
    MinCostsOf(w, mask, [maxSlope |-> MaxSlope, allowDiagonal |-> TRUE,
                         blockedMask |-> blocked])>>

RECURSIVE PathCost(_)
PathCost(p) ==
  IF Len(p) < 2 THEN 0 ELSE StepCost(p[1], p[2]) + PathCost(Tail(p))

\* the least cost from the call's start to its goal
MinCostOfCall ==
  minCost[IF call.options.allowDiagonal THEN 2 ELSE 1][call.start.x + call.start.y * world.width + 1]
         [call.goal.x + call.goal.y * world.width + 1]

Returned == call.op = "findPath" /\ call.result.found

InGrid(w, p) == p.x >= 0 /\ p.y >= 0 /\ p.x < w.width /\ p.y < w.height

\* ------------------------------------------------------------ model worlds
\* A world of the model: a width x height grid of revealed, unblocked Soil
\* one level above the sea, on which the cells of a set S are special.  The
\* special kinds are dealt in turn: Water (below sea level), a cell under a
\* tree, a blocked cell, an unrevealed cell, and Soil raised by 1..MaxLevel.
NumKinds == 4 + MaxLevel

RECURSIVE SumSet(_)
SumSet(S) == IF S = {} THEN 0 ELSE LET c == CHOOSE c \in S : TRUE
                                   IN c + SumSet(S \ {c})

\* the kind of cell i when S is the set of special cells, -1 if not special
KindAt(S, i) ==
  IF i \notin S THEN -1
  ELSE (Cardinality({j \in S : j <= i}) + SumSet(S)) % NumKinds

KindWater(S, i) == KindAt(S, i) = 0

KindObject(S, i) == KindAt(S, i) = 1

KindBlocked(S, i) == KindAt(S, i) = 2

KindHidden(S, i) == KindAt(S, i) = 3

\* levels above the base level of a raised cell, 0 for the other cells
KindRaised(S, i) == IF KindAt(S, i) > 3 THEN KindAt(S, i) - 3 ELSE 0

\* the objects of the special cells, in row-major order as generation pushes them
RECURSIVE objectsFrom(_, _, _, _)
objectsFrom(S, width, height, i) ==
  IF i >= width * height THEN <<>>
  ELSE IF KindObject(S, i)
    THEN <<[x |-> i % width, y |-> i \div width, type |-> "tree"]>>
         \o objectsFrom(S, width, height, i + 1)
  ELSE objectsFrom(S, width, height, i + 1)

MakeWorld(width, height, S) ==
  [width |-> width, height |-> height,
   heightmap |-> [i \in 0..(width * height - 1) |->
                    IF KindWater(S, i) THEN SeaLevel - 1
                    ELSE SeaLevel + KindRaised(S, i)],
   ground |-> [i \in 0..(width * height - 1) |->
                 IF KindWater(S, i) THEN Water ELSE Soil],
   objects |-> objectsFrom(S, width, height, 0)]

MakeBlocked(width, height, S) ==
  [i \in 0..(width * height - 1) |-> IF KindBlocked(S, i) THEN 1 ELSE 0]

MakeRevealed(width, height, S) ==
  [i \in 0..(width * height - 1) |-> IF KindHidden(S, i) THEN 0 ELSE 1]

\* the sets of special cells: any part of one row, any part of one column,
\* and any two cells
SpecialSets(width, height) ==
  LET cells == 0..(width * height - 1)
  IN {S \in SUBSET cells : \E r \in 0..(height - 1) : \A i \in S : i \div width = r}
     \cup {S \in SUBSET cells : \E c \in 0..(width - 1) : \A i \in S : i % width = c}
     \cup {{a, b} : a \in cells, b \in cells}

NoCounts(w) == [i \in Cells(w) |-> 0]

\* ---------------------------------------------------- pathfinder in isolation
\* The worlds are the full grids and the grids of a single row.
GridPoints(w) == {Point(x, y) : x \in 0..(w.width - 1), y \in 0..(w.height - 1)}

\* three points outside the grid; the index of the second is that of a cell
OutsidePoints(w) == {Point(-1, 0), Point(w.width, 0), Point(0, w.height)}

InitPath ==
  /\ \E height \in {1, MaxHeight} :
       \E S \in SpecialSets(MaxWidth, height) :
         /\ world = MakeWorld(MaxWidth, height, S)
         /\ blockedMask = MakeBlocked(MaxWidth, height, S)
         /\ revealed = MakeRevealed(MaxWidth, height, S)
  /\ currentCell = Point(0, 0)
  /\ pos = Point(0, 0)
  /\ targetCell = Null
  /\ path = <<>>
  /\ pathStep = 0
  /\ needsRepath = FALSE
  /\ returned = NoCounts(world)
  /\ minCost = MinCostTable(world, revealed, blockedMask)
  /\ call = [op |-> "init"]

\* One call per behaviour: the calls share no state, so a second call from
\* the same world adds nothing.
FindPathCall ==
  /\ call.op = "init"
  /\ \E start \in GridPoints(world) \cup OutsidePoints(world),
        goal \in GridPoints(world) \cup OutsidePoints(world),
        allowDiagonal \in BOOLEAN :
       LET options == [maxSlope |-> MaxSlope, allowDiagonal |-> allowDiagonal,
                       blockedMask |-> blockedMask]
       IN call' = [op |-> "findPath", start |-> start, goal |-> goal,
                   options |-> options,
                   result |-> findPath(world, revealed, start, goal, options)]
  /\ UNCHANGED <<world, revealed, blockedMask, currentCell, pos, targetCell,
                 path, pathStep, needsRepath, returned, minCost>>

IsCellPassableCall ==
  /\ call.op = "init"
  /\ \E x \in -1..world.width, y \in -1..world.height, supplied \in BOOLEAN :
       LET options == [maxSlope |-> MaxSlope, allowDiagonal |-> TRUE,
                       blockedMask |-> IF supplied THEN blockedMask ELSE Null]
       IN call' = [op |-> "isCellPassable", x |-> x, y |-> y,
                   options |-> options,
                   result |-> isCellPassable(world, revealed, x, y, options)]
  /\ UNCHANGED <<world, revealed, blockedMask, currentCell, pos, targetCell,
                 path, pathStep, needsRepath, returned, minCost>>

\* isCellStandable on a cell, next to what isCellPassable answers for it when
\* the pathfinder asks with the same blockedMask
IsCellStandableCall ==
  /\ call.op = "init"
  /\ \E x \in -1..world.width, y \in -1..world.height :
       LET options == [maxSlope |-> MaxSlope, allowDiagonal |-> TRUE,
                       blockedMask |-> blockedMask]
       IN call' = [op |-> "isCellStandable", x |-> x, y |-> y,
                   result |-> isCellStandable(world, x, y, blockedMask),
                   passable |-> isCellPassable(world, revealed, x, y, options)]
  /\ UNCHANGED <<world, revealed, blockedMask, currentCell, pos, targetCell,
                 path, pathStep, needsRepath, returned, minCost>>

NextPath == FindPathCall \/ IsCellPassableCall \/ IsCellStandableCall

SpecPath == InitPath /\ [][NextPath]_vars

\* ---------------------------------------------------------------- mulberry32
\* A 32-bit word is kept as its two 16-bit halves [hi, lo]; every operation
\* is modulo 2^32, as |0, >>>0, ^, | and Math.imul make it in the code.
Word(hi, lo) == [hi |-> hi, lo |-> lo]

\* seed >>> 0, for a seed below 2^31
ToWord(n) == Word((n \div 65536) % 65536, n % 65536)

RECURSIVE XorBits(_, _, _)
XorBits(a, b, n) ==
  IF n = 0 THEN 0
  ELSE ((a + b) % 2) + 2 * XorBits(a \div 2, b \div 2, n - 1)

RECURSIVE OrBits(_, _, _)
OrBits(a, b, n) ==
  IF n = 0 THEN 0
  ELSE (IF a % 2 = 1 \/ b % 2 = 1 THEN 1 ELSE 0)
       + 2 * OrBits(a \div 2, b \div 2, n - 1)

\* a ^ b
Xor32(a, b) == Word(XorBits(a.hi, b.hi, 16), XorBits(a.lo, b.lo, 16))

\* a | b
Or32(a, b) == Word(OrBits(a.hi, b.hi, 16), OrBits(a.lo, b.lo, 16))

RECURSIVE Pow2(_)
Pow2(k) == IF k = 0 THEN 1 ELSE 2 * Pow2(k - 1)

\* a >>> k, for 0 < k < 16
Shr32(a, k) ==
  Word(a.hi \div Pow2(k),
       (a.lo \div Pow2(k)) + (a.hi % Pow2(k)) * Pow2(16 - k))

\* a + b, wrapped to 32 bits
Add32(a, b) ==
  Word((a.hi + b.hi + ((a.lo + b.lo) \div 65536)) % 65536,
       (a.lo + b.lo) % 65536)

\* the 32-bit product of two 16-bit numbers, by bytes of x
Mul16(x, y) ==
  LET p0 == (x % 256) * y
      p1 == (x \div 256) * y
      low == p0 + (p1 % 256) * 256
  IN Word(((p1 \div 256) + (low \div 65536)) % 65536, low % 65536)

\* Math.imul(a, b)
Imul32(a, b) ==
  LET ll == Mul16(a.lo, b.lo)
      cross == (Mul16(a.hi, b.lo).lo + Mul16(a.lo, b.hi).lo) % 65536
  IN Word((ll.hi + cross) % 65536, ll.lo)

\* One draw of the generator mulberry32 returns: the state t after
\* t += 0x6d2b79f5 and the 32-bit value that is divided by 4294967296.
mulberry32(t) ==
  LET t1 == Add32(t, Word(27947, 31221))
      r1 == Imul32(Xor32(t1, Shr32(t1, 15)), Or32(Word(0, 1), t1))
      r2 == Xor32(r1, Add32(r1, Imul32(Xor32(r1, Shr32(r1, 7)),
                                       Or32(Word(0, 61), r1))))
  IN [t |-> t1, value |-> Xor32(r2, Shr32(r2, 14))]

\* value / 4294967296 < percent / 100
rollBelow(value, percent) ==
  value.hi * 100 + ((value.lo * 100) \div 65536) < percent * 65536

\* ----------------------------------------------------------- world generator
\* Heights, slopes and the height thresholds of the config are in hundredths,
\* chances in percent.  createNoise2D comes from the simplex-noise package: what
\* its two noise fields give for the seed of a config enters as heightField
\* (Math.pow(fbm(heightNoise, ...), 1.05) per cell) and forestField
\* (fbm(forestNoise, ...) per cell), the same in every call for that config.
\* mutant: only the eight cells next to the cell count
isNearSeaAdjacent(heightmap, width, height, x, y, seaLevel, radius) ==
  \E dy \in -1..1, dx \in -1..1 :
    /\ ~(dx = 0 /\ dy = 0)
    /\ ~(x + dx < 0 \/ y + dy < 0 \/ x + dx >= width \/ y + dy >= height)
    /\ heightmap[getIndex(width, x + dx, y + dy)] < seaLevel

isNearSea(heightmap, width, height, x, y, seaLevel, radius) ==
  \E dy \in -radius..radius, dx \in -radius..radius :
    /\ ~(dx = 0 /\ dy = 0)
    /\ ~(x + dx < 0 \/ y + dy < 0 \/ x + dx >= width \/ y + dy >= height)
    /\ heightmap[getIndex(width, x + dx, y + dy)] < seaLevel

\* cells the loops over y < height and x < width visit
cellCount(config) ==
  IF config.width > 0 /\ config.height > 0 THEN config.width * config.height
  ELSE 0

\* mutant: the generator continues from the state the last call left
objectRngCarried(config, previous) == previous

\* objectRng = mulberry32(config.seed + 9001), made anew in every call;
\* previous, the state the last call left, is not used
objectRng(config, previous) == ToWord(config.seed + 9001)

\* Phase 2, cell i in row-major order.  st = [ground, rng, rolls]; rolls logs
\* the draws from objectRng.
RECURSIVE classifyLoop(_, _, _, _)
classifyLoop(config, heightmap, st, i) ==
  LET x == i % config.width
      y == i \div config.width
      h == heightmap[i]
      slope == getSlopeAt([width |-> config.width, height |-> config.height,
                           heightmap |-> heightmap], x, y)
      nearWater == isNearSea(heightmap, config.width, config.height, x, y,
                             config.seaLevel, 2)
      draw == mulberry32(st.rng)
      set(g) == [st EXCEPT !.ground[i] = g]
  IN IF i >= cellCount(config) THEN st
     ELSE IF h < config.seaLevel
       THEN classifyLoop(config, heightmap, set(Water), i + 1)
     ELSE IF h > config.mountainHeight \/ slope > config.slopeRock
       THEN classifyLoop(config, heightmap, set(Rock), i + 1)
     ELSE IF nearWater /\ h < config.seaLevel + config.sandHeight
       THEN classifyLoop(config, heightmap,
              [ground |-> [st.ground EXCEPT ![i] =
                             IF rollBelow(draw.value, config.sandChance)
                               THEN Sand ELSE Soil],
               rng |-> draw.t,
               rolls |-> Append(st.rolls, [phase |-> "sand", index |-> i])],
              i + 1)
     ELSE classifyLoop(config, heightmap, set(Soil), i + 1)

\* mutant: a tree is placed whatever the ground is
treeGroundAny(groundType) == TRUE

\* groundType === GroundType.Soil
treeGround(groundType) == groundType = Soil

\* Phase 3, cell i in row-major order.  st = [objects, rng, rolls].
RECURSIVE placeLoop(_, _, _, _, _, _)
placeLoop(config, heightmap, ground, forestField, st, i) ==
  LET x == i % config.width
      y == i \div config.width
      h == heightmap[i]
      slope == getSlopeAt([width |-> config.width, height |-> config.height,
                           heightmap |-> heightmap], x, y)
      treeRoll == /\ treeGround(ground[i])
                  /\ slope < config.treeSlopeMax
                  /\ h > config.seaLevel + 2
                  /\ forestField[i] > config.forestThreshold
      d1 == mulberry32(st.rng)
      afterTree ==
        IF ~treeRoll THEN st
        ELSE [objects |-> IF rollBelow(d1.value, config.treeChance)
                            THEN Append(st.objects,
                                        [x |-> x, y |-> y, type |-> "tree"])
                            ELSE st.objects,
              rng |-> d1.t,
              rolls |-> Append(st.rolls, [phase |-> "tree", index |-> i])]
      rockRoll == ground[i] = Rock /\ slope < config.rockSlopeMax
      d2 == mulberry32(afterTree.rng)
      afterRock ==
        IF ~rockRoll THEN afterTree
        ELSE [objects |-> IF rollBelow(d2.value, config.rockChance)
                            THEN Append(afterTree.objects,
                                        [x |-> x, y |-> y, type |-> "rock"])
                            ELSE afterTree.objects,
              rng |-> d2.t,
              rolls |-> Append(afterTree.rolls,
                               [phase |-> "rock", index |-> i])]
  IN IF i >= cellCount(config) THEN st
     ELSE placeLoop(config, heightmap, ground, forestField, afterRock, i + 1)

\* The result is the WorldData, with the state objectRng is left in and the
\* log of its draws.  The arrays have width * height entries, zero until
\* written; a negative length makes the array constructor throw.
generateWorld(config, heightField, forestField, previous) ==
  LET indices == 0..(config.width * config.height - 1)
      heightmap == [i \in indices |->
                      IF i < cellCount(config) THEN heightField[i] ELSE 0]
      classified ==
        classifyLoop(config, heightmap,
                     [ground |-> [i \in indices |-> 0],
                      rng |-> objectRng(config, previous),
                      rolls |-> <<>>], 0)
      placed ==
        placeLoop(config, heightmap, classified.ground, forestField,
                  [objects |-> <<>>, rng |-> classified.rng,
                   rolls |-> classified.rolls], 0)
  IN IF config.width * config.height < 0
       THEN [thrown |-> TRUE, rng |-> previous]
     ELSE [thrown |-> FALSE,
           world |-> [width |-> config.width, height |-> config.height,
                      heightmap |-> heightmap, ground |-> classified.ground,
                      objects |-> placed.objects],
           rng |-> placed.rng,
           rolls |-> placed.rolls]

\* ------------------------------------------------------------------- spawn
\* mutant: the slope test left out
isCellSpawnableNoSlope(w, x, y, maxSlope, seaLevel, blocked) ==
  IF ~inBounds(w, x, y) THEN FALSE
  ELSE LET index == getIndex(w.width, x, y)
       IN IF w.heightmap[index] < seaLevel THEN FALSE
          ELSE IF w.ground[index] = Water THEN FALSE
          ELSE IF blocked[index] = 1 THEN FALSE
          ELSE IF cellHasObject(w, x, y) THEN FALSE
          ELSE TRUE

isCellSpawnable(w, x, y, maxSlope, seaLevel, blocked) ==
  IF ~inBounds(w, x, y) THEN FALSE
  ELSE LET index == getIndex(w.width, x, y)
       IN IF w.heightmap[index] < seaLevel THEN FALSE
          ELSE IF w.ground[index] = Water THEN FALSE
          ELSE IF blocked[index] = 1 THEN FALSE
          ELSE IF cellHasObject(w, x, y) THEN FALSE
          ELSE getSlopeAt(w, x, y) <= maxSlope

\* mutant: the smaller side of the grid bounds the rings
maxRadiusSmallerSide(w) == Min(w.width, w.height)

\* maxRadius = Math.max(worldData.width, worldData.height)
maxRadius(w) == Max(w.width, w.height)

\* mutant: the square of ring r is scanned column by column
scanPointByColumn(w, r, k) ==
  Point((w.width \div 2) + (k \div (2 * r + 1)) - r,
        (w.height \div 2) + (k % (2 * r + 1)) - r)

\* The ring scan of findSpawn: in square r, iteration k visits
\* dy = -r + k \div side, dx = -r + k % side, side = 2r + 1.
scanPoint(w, r, k) ==
  Point((w.width \div 2) + (k % (2 * r + 1)) - r,
        (w.height \div 2) + (k \div (2 * r + 1)) - r)

\* The result is the cell and whether it is the fallback after the loops.
RECURSIVE findSpawnLoop(_, _, _, _, _, _)
findSpawnLoop(w, maxSlope, seaLevel, blocked, r, k) ==
  LET side == 2 * r + 1
      p == scanPoint(w, r, k)
  IN IF r >= maxRadius(w) THEN [cell |-> Point(0, 0), fallback |-> TRUE]
     ELSE IF k >= side * side
       THEN findSpawnLoop(w, maxSlope, seaLevel, blocked, r + 1, 0)
     ELSE IF isCellSpawnable(w, p.x, p.y, maxSlope, seaLevel, blocked)
       THEN [cell |-> p, fallback |-> FALSE]
     ELSE findSpawnLoop(w, maxSlope, seaLevel, blocked, r, k + 1)

findSpawn(w, maxSlope, seaLevel, blocked) ==
  findSpawnLoop(w, maxSlope, seaLevel, blocked, 0, 0).cell

\* first spawnable cell of the square of the given radius around the centre,
\* rows first; k counts the cells visited
RECURSIVE findSpawnAroundCell(_, _, _, _, _, _, _, _)
findSpawnAroundCell(w, centerX, centerY, maxSlope, seaLevel, blocked, radius, k) ==
  LET side == 2 * radius + 1
      x == centerX + (k % side) - radius
      y == centerY + (k \div side) - radius
  IN IF k >= side * side THEN Null
     ELSE IF isCellSpawnable(w, x, y, maxSlope, seaLevel, blocked)
       THEN Point(x, y)
     ELSE findSpawnAroundCell(w, centerX, centerY, maxSlope, seaLevel, blocked,
                              radius, k + 1)

\* spawn=forest: a spawnable cell within 3 cells of the blocked cell nearest
\* to the centre that has one
RECURSIVE findSpawnNearForest(_, _, _, _, _, _)
findSpawnNearForest(w, maxSlope, seaLevel, blocked, r, k) ==
  LET side == 2 * r + 1
      p == scanPoint(w, r, k)
      candidate == findSpawnAroundCell(w, p.x, p.y, maxSlope, seaLevel,
                                       blocked, 3, 0)
  IN IF r >= Max(w.width, w.height) THEN Null
     ELSE IF k >= side * side
       THEN findSpawnNearForest(w, maxSlope, seaLevel, blocked, r + 1, 0)
     ELSE IF /\ inBounds(w, p.x, p.y)
             /\ blocked[getIndex(w.width, p.x, p.y)] = 1
             /\ candidate # Null
       THEN candidate
     ELSE findSpawnNearForest(w, maxSlope, seaLevel, blocked, r, k + 1)

\* A string is a sequence of characters.
NaN == [nan |-> TRUE]

DigitChars == <<"0", "1", "2", "3", "4", "5", "6", "7", "8", "9">>

isDigit(c) == \E d \in 1..10 : DigitChars[d] = c

digitOf(c) == (CHOOSE d \in 1..10 : DigitChars[d] = c) - 1

RECURSIVE trimStart(_)
trimStart(text) ==
  IF text # <<>> /\ text[1] = " " THEN trimStart(Tail(text)) ELSE text

\* the digits read from position i on: how many, and their decimal value
RECURSIVE readDigits(_, _, _, _)
readDigits(text, i, n, value) ==
  IF i > Len(text) \/ ~isDigit(text[i]) THEN [n |-> n, value |-> value]
  ELSE readDigits(text, i + 1, n + 1, 10 * value + digitOf(text[i]))

\* Number.parseInt(text, 10): leading white space is skipped, a sign is
\* taken, then the digits up to the first other character; NaN without a digit
parseInt(text) ==
  LET t == trimStart(text)
      signed == t # <<>> /\ t[1] \in {"+", "-"}
      r == readDigits(IF signed THEN Tail(t) ELSE t, 1, 0, 0)
  IN IF r.n = 0 THEN NaN
     ELSE [nan |-> FALSE,
           value |-> IF signed /\ t[1] = "-" THEN 0 - r.value ELSE r.value]

\* text.split(",")
RECURSIVE split(_, _, _, _)
split(text, i, current, parts) ==
  IF i > Len(text) THEN Append(parts, current)
  ELSE IF text[i] = "," THEN split(text, i + 1, <<>>, Append(parts, current))
  ELSE split(text, i + 1, Append(current, text[i]), parts)

ForestToken == <<"f", "o", "r", "e", "s", "t">>

Absent == [null |-> TRUE]

Text(chars) == [null |-> FALSE, text |-> chars]

\* spawnParam is what params.get("spawn") gives: Absent without the
\* parameter, else Text of its characters.  The branch of spawn=cliff calls findSpawnNearCliff, which
\* is not among the sources; no parameter drawn here spells it.
getSpawnOverride(w, blocked, maxSlope, seaLevel, spawnParam) ==
  IF spawnParam.null \/ spawnParam.text = <<>> THEN Null
  ELSE IF spawnParam.text = ForestToken
    THEN findSpawnNearForest(w, maxSlope, seaLevel, blocked, 0, 0)
  ELSE LET parts == split(spawnParam.text, 1, <<>>, <<>>)
           x == parseInt(parts[1])
           y == parseInt(parts[2])
       IN IF Len(parts) # 2 THEN Null
          ELSE IF parts[1] = <<>> \/ parts[2] = <<>> THEN Null
          ELSE IF x.nan \/ y.nan THEN Null
          ELSE IF isCellSpawnable(w, x.value, y.value, maxSlope, seaLevel,
                                  blocked)
            THEN Point(x.value, y.value)
          ELSE Null

\* ------------------------------------------------------------------ driver
\* Positions are in units of cellSize / (2 * HalfCell): a cell is 2 * HalfCell
\* units wide and the world origin is the middle of the grid, as in the code.
cellToWorld(w, x, y) ==
  Point((2 * x + 1 - w.width) * HalfCell, (2 * y + 1 - w.height) * HalfCell)

worldToCell(w, x, z) ==
  Point((x + w.width * HalfCell) \div (2 * HalfCell),
        (z + w.height * HalfCell) \div (2 * HalfCell))

revealRadius == MaxRadius

pathOptions == [maxSlope |-> MaxSlope, allowDiagonal |-> TRUE,
                blockedMask |-> blockedMask]

RECURSIVE GCD(_, _)
GCD(a, b) == IF b = 0 THEN a ELSE GCD(b, a % b)

\* returned counts after one more revealAround result
RECURSIVE Count(_, _, _)
Count(counts, newly, i) ==
  IF i > Len(newly) THEN counts
  ELSE Count([counts EXCEPT ![newly[i]] = @ + 1], newly, i + 1)

\* mutant: every result is taken as a path
unusableNever(newPath) == FALSE

\* mutant: a path of one point is taken as usable
unusableNullOnly(newPath) == ~newPath.found

\* !newPath || newPath.length < 2, newPath being a result of findPath
unusable(newPath) == ~newPath.found \/ Len(newPath.path) < 2

\* mutant: the repath block never runs
shouldRepathNever(needs, target) == FALSE

\* needsRepath && targetCell
shouldRepath(needs, target) == needs /\ target # Null

\* mutant: the path is never taken as walked to its end
pathDoneNever(step, points) == FALSE

\* pathStep >= path.length
pathDone(step, points) == step >= Len(points)

\* the worlds of the driver: the special cells are any part of the first row
RowSets(width, height) == SUBSET (0..(width - 1))

\* spawn=x,y query parameters tried: a corner cell, and a cell outside the
\* grid, which is never spawnable and leaves the choice to findSpawn
SpawnParams == {Text(<<"0", ",", "0">>), Text(<<"-", "1", ",", "-", "1">>)}

\* Start-up: the world and the dense-forest mask, the spawn cell (the
\* spawn=x,y override when that cell is spawnable, else findSpawn), the first
\* reveal around it, the player placed at the centre of the spawn cell.
InitFrom(sets) ==
  /\ \E S \in sets :
       /\ world = MakeWorld(MaxWidth, MaxHeight, S)
       /\ blockedMask = MakeBlocked(MaxWidth, MaxHeight, S)
  /\ \E p \in SpawnParams :
       LET spawnOverride ==
             getSpawnOverride(world, blockedMask, MaxSlope, SeaLevel, p)
       IN currentCell = IF spawnOverride # Null THEN spawnOverride
                        ELSE findSpawn(world, MaxSlope, SeaLevel, blockedMask)
  /\ LET initial == revealAround(world, NoCounts(world), currentCell, revealRadius)
     IN /\ revealed = initial.mask
        /\ returned = Count(NoCounts(world), initial.newly, 1)
  /\ pos = cellToWorld(world, currentCell.x, currentCell.y)
  /\ targetCell = Null
  /\ path = <<>>
  /\ pathStep = 0
  /\ needsRepath = FALSE
  /\ minCost = <<>>
  /\ call = [op |-> "init"]

Init == InitFrom(RowSets(MaxWidth, MaxHeight))

\* handleRightClick with the picked cell as input; a click that hits nothing
\* returns at once and is not modelled.
HandleRightClick ==
  \E cell \in GridPoints(world) \cup OutsidePoints(world) :
    IF \/ ~inBounds(world, cell.x, cell.y)
       \/ revealed[getIndex(world.width, cell.x, cell.y)] = 0
       \/ ~isCellStandable(world, cell.x, cell.y, blockedMask)
    THEN /\ call' = [op |-> "handleRightClick", events |-> <<>>]
         /\ UNCHANGED <<world, revealed, blockedMask, currentCell, pos,
                        targetCell, path, pathStep, needsRepath, returned,
                        minCost>>
    ELSE \E newPath \in {findPath(world, revealed, currentCell, cell,
                                    pathOptions)} :
            /\ IF unusable(newPath)
                 THEN /\ path' = <<>>
                      /\ targetCell' = Null
                      /\ needsRepath' = FALSE
                      /\ pathStep' = pathStep
                 ELSE /\ path' = newPath.path
                      /\ pathStep' = 1
                      /\ targetCell' = cell
                      /\ needsRepath' = needsRepath
            /\ call' = [op |-> "handleRightClick",
                        events |-> <<[ev |-> "findPath", start |-> currentCell,
                                      goal |-> cell, found |-> newPath.found,
                                      points |-> Len(newPath.path)]>>]
            /\ UNCHANGED <<world, revealed, blockedMask, currentCell, pos,
                           returned, minCost>>

\* updateMovement(delta).  delta enters only through step = moveSpeed * delta:
\* the tick either reaches the centre of the next path cell (distance <= step)
\* or stops j >= 1 lattice units along the straight segment towards it.
UpdateMovement ==
  LET moving == Len(path) > 1 /\ pathStep < Len(path)
      nextCell == path[pathStep + 1]
      targetPos == cellToWorld(world, nextCell.x, nextCell.y)
      dx == targetPos.x - pos.x
      dz == targetPos.y - pos.y
      g == GCD(Abs(dx), Abs(dz))
  IN \E j \in (IF moving THEN 1 ELSE 0)..(IF moving THEN g ELSE 0) :
       LET arrived == moving /\ j >= g
           pos1 == IF ~moving THEN pos
                   ELSE IF arrived THEN targetPos
                   ELSE Point(pos.x + j * (dx \div g), pos.y + j * (dz \div g))
           step1 == IF arrived THEN pathStep + 1 ELSE pathStep
           newCell == worldToCell(world, pos1.x, pos1.y)
           changed == moving /\ newCell # currentCell
           cell1 == IF changed THEN newCell ELSE currentCell
       IN \E rev \in {IF changed
                        THEN revealAround(world, revealed, cell1, revealRadius)
                        ELSE [mask |-> revealed, newly |-> <<>>]} :
            LET needs1 == IF changed /\ Len(rev.newly) > 0 /\ targetCell # Null
                            THEN TRUE ELSE needsRepath
                done == moving /\ pathDone(step1, path)
                path2 == IF done THEN <<>> ELSE path
                target2 == IF done THEN Null ELSE targetCell
                needs2 == IF done THEN FALSE ELSE needs1
                repath == shouldRepath(needs2, target2)
            IN \E newPath \in {IF repath
                                  THEN findPath(world, rev.mask, cell1, target2,
                                                pathOptions)
                                  ELSE NoPath} :
                 LET failed == repath /\ unusable(newPath)
                 IN /\ pos' = pos1
                    /\ currentCell' = cell1
                    /\ revealed' = rev.mask
                    /\ returned' = Count(returned, rev.newly, 1)
                    /\ path' = IF ~repath THEN path2
                               ELSE IF failed THEN <<>> ELSE newPath.path
                    /\ targetCell' = IF failed THEN Null ELSE target2
                    /\ pathStep' = IF repath /\ ~failed THEN 1 ELSE step1
                    /\ needsRepath' = IF repath THEN FALSE ELSE needs2
                    /\ call' =
                         [op |-> "updateMovement",
                          events |->
                            (IF moving THEN <<[ev |-> "move", to |-> pos1]>>
                             ELSE <<>>)
                            \o (IF changed
                                  THEN <<[ev |-> "reveal", center |-> cell1,
                                          newly |-> rev.newly,
                                          inProgress |-> step1 < Len(path),
                                          target |-> targetCell]>>
                                  ELSE <<>>)
                            \o (IF repath
                                  THEN <<[ev |-> "findPath", start |-> cell1,
                                          goal |-> target2,
                                          found |-> newPath.found,
                                          points |-> Len(newPath.path)]>>
                                  ELSE <<>>)]
                    /\ UNCHANGED <<world, blockedMask, minCost>>

Next == HandleRightClick \/ UpdateMovement

Spec == Init /\ [][Next]_vars

\* The driver on the worlds whose special cells are any part of the last row
\* after its first cell: there a move between two cells that touch at a corner
\* has an obstacle on the far side of the corner.
LastRowSets(width, height) ==
  SUBSET ((width * (height - 1) + 1)..(width * height - 1))

InitWalk == InitFrom(LastRowSets(MaxWidth, MaxHeight))

SpecWalk == InitWalk /\ [][Next]_vars

\* The driver when no request arrives while a goal is pending, with the frame
\* loop calling updateMovement again and again with a positive step.
IdleRightClick == targetCell = Null /\ HandleRightClick

NextLive == IdleRightClick \/ UpdateMovement

\* What a tick with a positive step does to the position of a moving agent:
\* the part of updateMovement that the fairness condition is about.
Advance ==
  /\ Len(path) > 1
  /\ pathStep < Len(path)
  /\ LET nextCell == path[pathStep + 1]
         targetPos == cellToWorld(world, nextCell.x, nextCell.y)
         dx == targetPos.x - pos.x
         dz == targetPos.y - pos.y
         g == GCD(Abs(dx), Abs(dz))
     IN \E j \in 1..g :
          pos' = Point(pos.x + j * (dx \div g), pos.y + j * (dz \div g))

SpecLive == Init /\ [][NextLive]_vars /\ WF_pos(Advance)

\* -------------------------------------------- reveal calls from any caller
\* The driver on a small world, with revealAround and findPath also called
\* from outside it, with any centre in or next to the grid and any radius.
InitReveal ==
  /\ \E S \in RowSets(RevealWidth, RevealHeight) :
       /\ world = MakeWorld(RevealWidth, RevealHeight, S)
       /\ blockedMask = MakeBlocked(RevealWidth, RevealHeight, S)
  /\ currentCell = findSpawn(world, MaxSlope, SeaLevel, blockedMask)
  /\ LET initial == revealAround(world, NoCounts(world), currentCell, revealRadius)
     IN /\ revealed = initial.mask
        /\ returned = Count(NoCounts(world), initial.newly, 1)
  /\ pos = cellToWorld(world, currentCell.x, currentCell.y)
  /\ targetCell = Null
  /\ path = <<>>
  /\ pathStep = 0
  /\ needsRepath = FALSE
  /\ minCost = <<>>
  /\ call = [op |-> "init"]

RevealAroundCall ==
  \E x \in -1..world.width, y \in -1..world.height, radius \in 0..MaxRadius :
    \E rev \in {revealAround(world, revealed, Point(x, y), radius)} :
      /\ revealed' = rev.mask
      /\ returned' = Count(returned, rev.newly, 1)
      /\ call' = [op |-> "revealAround", center |-> Point(x, y),
                  radius |-> radius, newly |-> rev.newly,
                  repeated |-> /\ call.op = "revealAround"
                               /\ call.center = Point(x, y)
                               /\ call.radius = radius]
      /\ UNCHANGED <<world, blockedMask, currentCell, pos, targetCell, path,
                     pathStep, needsRepath, minCost>>

\* mutant: findPath marks the goal cell revealed before it looks at it
FindPathProbeMarking ==
  \E start \in GridPoints(world), goal \in GridPoints(world) :
    /\ revealed' = markRevealed(revealed, getIndex(world.width, goal.x, goal.y))
    /\ call' = [op |-> "probe",
                found |-> findPath(world, revealed', start, goal,
                                   pathOptions).found]
    /\ UNCHANGED <<world, blockedMask, currentCell, pos, targetCell,
                   path, pathStep, needsRepath, returned, minCost>>

\* findPath called from outside the driver; only whether it found a path is kept
FindPathProbe ==
  \E start \in GridPoints(world), goal \in GridPoints(world) :
    /\ call' = [op |-> "probe",
                found |-> findPath(world, revealed, start, goal,
                                   pathOptions).found]
    /\ UNCHANGED <<world, revealed, blockedMask, currentCell, pos, targetCell,
                   path, pathStep, needsRepath, returned, minCost>>

NextReveal ==
  RevealAroundCall \/ FindPathProbe \/ HandleRightClick \/ UpdateMovement

SpecReveal == InitReveal /\ [][NextReveal]_vars

\* -------------------------------------------------- spawn search in isolation
\* Grids of every width and height up to the bounds, before any reveal; one
\* findSpawn call with a strict or the usual maxSlope and the usual or a
\* raised seaLevel.
InitSpawn ==
  /\ \E width \in 1..MaxWidth, height \in 1..MaxHeight :
       \E S \in SpecialSets(width, height) :
         /\ world = MakeWorld(width, height, S)
         /\ blockedMask = MakeBlocked(width, height, S)
  /\ revealed = NoCounts(world)
  /\ returned = NoCounts(world)
  /\ currentCell = Point(0, 0)
  /\ pos = Point(0, 0)
  /\ targetCell = Null
  /\ path = <<>>
  /\ pathStep = 0
  /\ needsRepath = FALSE
  /\ minCost = <<>>
  /\ call = [op |-> "init"]

FindSpawnCall ==
  /\ call.op = "init"
  /\ \E maxSlope \in {0, MaxSlope}, seaLevel \in {SeaLevel, SeaLevel + 1} :
       call' = [op |-> "findSpawn", maxSlope |-> maxSlope,
                seaLevel |-> seaLevel,
                result |-> findSpawnLoop(world, maxSlope, seaLevel,
                                         blockedMask, 0, 0)]
  /\ UNCHANGED <<world, revealed, blockedMask, currentCell, pos, targetCell,
                 path, pathStep, needsRepath, returned, minCost>>

NextSpawn == FindSpawnCall

SpecSpawn == InitSpawn /\ [][NextSpawn]_vars

\* ------------------------------------------------ reveal tracker in isolation
\* A mask that starts all-unrevealed on an open grid, and any sequence of
\* revealAround calls on it; every mask is reached by calls of radius 0.
InitMask ==
  /\ world = MakeWorld(MaxWidth, MaxHeight, {})
  /\ blockedMask = MakeBlocked(MaxWidth, MaxHeight, {})
  /\ revealed = NoCounts(world)
  /\ returned = NoCounts(world)
  /\ currentCell = Point(0, 0)
  /\ pos = Point(0, 0)
  /\ targetCell = Null
  /\ path = <<>>
  /\ pathStep = 0
  /\ needsRepath = FALSE
  /\ minCost = <<>>
  /\ call = [op |-> "init"]

NextMask == RevealAroundCall

SpecMask == InitMask /\ [][NextMask]_vars

\* ------------------------------------------------ world generator, repeated
\* worldConfig of the program for a grid of the given size
worldConfig(width, height, seed) ==
  [width |-> width, height |-> height, seed |-> seed,
   seaLevel |-> 36, mountainHeight |-> 72, slopeRock |-> 18,
   sandHeight |-> 7, sandChance |-> 55,
   treeSlopeMax |-> 8, forestThreshold |-> 55, treeChance |-> 32,
   rockSlopeMax |-> 14, rockChance |-> 2]

\* the same config with every chance at 1
certainConfig(width, height, seed) ==
  [worldConfig(width, height, seed) EXCEPT
     !.sandChance = 100, !.treeChance = 100, !.rockChance = 100]

\* heights the noise can give a cell: under the sea, on the shore, two
\* inland, on a mountain
HeightLevels == {30, 37, 60, 70, 75}

HeightFields(width, height) == [0..(width * height - 1) -> HeightLevels]

\* forest noise: under the threshold everywhere, over it everywhere, or over
\* it on every second cell
ForestFields(width, height) ==
  { [i \in 0..(width * height - 1) |-> 40],
    [i \in 0..(width * height - 1) |-> 70],
    [i \in 0..(width * height - 1) |-> IF i % 2 = 0 THEN 70 ELSE 40] }

\* Before the first call there is no world.  call carries the seed and grid
\* and what the noise fields give for them, the number of calls made, and
\* the state the last call's objectRng was left in.
InitGen ==
  /\ world = Null
  /\ \E dims \in {<<GenWidth, 1>>, <<GenHeight, GenHeight>>},
        seed \in {1337, 0} :
       \E heightField \in HeightFields(dims[1], dims[2]),
          forestField \in ForestFields(dims[1], dims[2]) :
         call = [op |-> "seeded", width |-> dims[1], height |-> dims[2],
                 seed |-> seed, heightField |-> heightField,
                 forestField |-> forestField, n |-> 0, rng |-> ToWord(0)]
  /\ revealed = <<>>
  /\ returned = <<>>
  /\ blockedMask = <<>>
  /\ currentCell = Point(0, 0)
  /\ pos = Point(0, 0)
  /\ targetCell = Null
  /\ path = <<>>
  /\ pathStep = 0
  /\ needsRepath = FALSE
  /\ minCost = <<>>

\* One generateWorld call, with the program's chances or with certain ones.
\* The call record keeps the config and result of the first call.
GenerateWorldCall ==
  /\ call.n < MaxCalls
  /\ \E config \in {worldConfig(call.width, call.height, call.seed),
                     certainConfig(call.width, call.height, call.seed)} :
       \E r \in {generateWorld(config, call.heightField, call.forestField,
                               call.rng)} :
         /\ world' = r.world
         /\ call' = [op |-> "generateWorld", width |-> call.width,
                     height |-> call.height, seed |-> call.seed,
                     heightField |-> call.heightField,
                     forestField |-> call.forestField,
                     n |-> call.n + 1, rng |-> r.rng,
                     config |-> config, rolls |-> r.rolls,
                     firstConfig |-> IF call.n = 0 THEN config
                                     ELSE call.firstConfig,
                     first |-> IF call.n = 0 THEN r.world ELSE call.first]
  /\ UNCHANGED <<revealed, blockedMask, currentCell, pos, targetCell, path,
                 pathStep, needsRepath, returned, minCost>>

NextGen == GenerateWorldCall

SpecGen == InitGen /\ [][NextGen]_vars

\* ------------------------------------------------- spawn override, any input
\* characters of the spawn parameter: digits in and out of the grid's range,
\* the separator, a sign, a letter and a blank
ParamChars == {"0", "1", "3", ",", "-", "a", " "}

SpawnTexts == UNION {[1..n -> ParamChars] : n \in 0..MaxParamLen}

InitOverride ==
  /\ \E S \in RowSets(MaxWidth, MaxHeight) :
       /\ world = MakeWorld(MaxWidth, MaxHeight, S)
       /\ blockedMask = MakeBlocked(MaxWidth, MaxHeight, S)
  /\ revealed = NoCounts(world)
  /\ returned = NoCounts(world)
  /\ currentCell = Point(0, 0)
  /\ pos = Point(0, 0)
  /\ targetCell = Null
  /\ path = <<>>
  /\ pathStep = 0
  /\ needsRepath = FALSE
  /\ minCost = <<>>
  /\ call = [op |-> "init"]

\* spawnOverride and spawnCell of the driver for one query string
GetSpawnOverrideCall ==
  /\ call.op = "init"
  /\ \E spawnParam \in {Absent, Text(ForestToken)}
                         \cup {Text(t) : t \in SpawnTexts} :
       \E spawnOverride \in {getSpawnOverride(world, blockedMask, MaxSlope,
                                              SeaLevel, spawnParam)} :
         /\ currentCell' = IF spawnOverride # Null THEN spawnOverride
                           ELSE findSpawn(world, MaxSlope, SeaLevel,
                                          blockedMask)
         /\ call' = [op |-> "getSpawnOverride", spawnParam |-> spawnParam,
                     result |-> spawnOverride]
  /\ UNCHANGED <<world, revealed, blockedMask, pos, targetCell, path,
                 pathStep, needsRepath, returned, minCost>>

NextOverride == GetSpawnOverrideCall

SpecOverride == InitOverride /\ [][NextOverride]_vars

\* ------------------------------------------------- world generator, any config
\* sea level and mountain height in order, equal, and reversed
LevelPairs == {<<36, 72>>, <<72, 72>>, <<80, 72>>}

\* The configs are the program's with the grid size, sea level and mountain
\* height replaced; sizes run from -1 to GenHeight.
InitConfig ==
  /\ world = Null
  /\ \E width \in -1..GenHeight, height \in -1..GenHeight,
        levels \in LevelPairs, seed \in {1337, 0} :
       \E config \in {[worldConfig(width, height, seed) EXCEPT
                          !.seaLevel = levels[1],
                          !.mountainHeight = levels[2]]} :
         \E heightField \in [0..(cellCount(config) - 1) -> {30, 70, 75}] :
           call = [op |-> "config", config |-> config,
                   heightField |-> heightField]
  /\ revealed = <<>>
  /\ returned = <<>>
  /\ blockedMask = <<>>
  /\ currentCell = Point(0, 0)
  /\ pos = Point(0, 0)
  /\ targetCell = Null
  /\ path = <<>>
  /\ pathStep = 0
  /\ needsRepath = FALSE
  /\ minCost = <<>>

\* const world = generateWorld(worldConfig): the world, or the exception
GenerateAnyCall ==
  /\ call.op = "config"
  /\ \E r \in {generateWorld(call.config, call.heightField,
                              [i \in DOMAIN call.heightField |-> 70],
                              ToWord(0))} :
       /\ world' = IF r.thrown THEN world ELSE r.world
       /\ call' = [op |-> "generateWorld", config |-> call.config,
                   thrown |-> r.thrown]
  /\ UNCHANGED <<revealed, blockedMask, currentCell, pos, targetCell, path,
                 pathStep, needsRepath, returned, minCost>>

NextConfig == GenerateAnyCall

SpecConfig == InitConfig /\ [][NextConfig]_vars

\* ------------------------------------------------ readers called at any time
\* The readers of the masks and the world called from outside the driver, in
\* any state the driver and revealAround calls lead to; only the answer is
\* kept.  None of their bodies assigns to an array it is handed.
IsCellPassableProbe ==
  \E x \in -1..world.width, y \in -1..world.height :
    /\ call' = [op |-> "isCellPassableProbe",
                result |-> isCellPassable(world, revealed, x, y, pathOptions)]
    /\ UNCHANGED <<world, revealed, blockedMask, currentCell, pos, targetCell,
                   path, pathStep, needsRepath, returned, minCost>>

IsCellStandableProbe ==
  \E x \in -1..world.width, y \in -1..world.height :
    /\ call' = [op |-> "isCellStandableProbe",
                result |-> isCellStandable(world, x, y, blockedMask)]
    /\ UNCHANGED <<world, revealed, blockedMask, currentCell, pos, targetCell,
                   path, pathStep, needsRepath, returned, minCost>>

IsCellSpawnableProbe ==
  \E x \in -1..world.width, y \in -1..world.height :
    /\ call' = [op |-> "isCellSpawnableProbe",
                result |-> isCellSpawnable(world, x, y, MaxSlope, SeaLevel,
                                           blockedMask)]
    /\ UNCHANGED <<world, revealed, blockedMask, currentCell, pos, targetCell,
                   path, pathStep, needsRepath, returned, minCost>>

FindSpawnProbe ==
  /\ call' = [op |-> "findSpawnProbe",
              result |-> findSpawn(world, MaxSlope, SeaLevel, blockedMask)]
  /\ UNCHANGED <<world, revealed, blockedMask, currentCell, pos, targetCell,
                 path, pathStep, needsRepath, returned, minCost>>

NextFrame ==
  \/ RevealAroundCall
  \/ FindPathProbe
  \/ IsCellPassableProbe
  \/ IsCellStandableProbe
  \/ IsCellSpawnableProbe
  \/ FindSpawnProbe
  \/ HandleRightClick
  \/ UpdateMovement

SpecFrame == InitReveal /\ [][NextFrame]_vars

\* ------------------------------------------------------------------ claims
\* the list revealAround returned in the operation c records, <<>> if the
\* operation made no revealAround call
NewlyOf(c) ==
  IF c.op = "revealAround" THEN c.newly
  ELSE IF c.op = "updateMovement"
          /\ \E i \in 1..Len(c.events) : c.events[i].ev = "reveal"
    THEN c.events[CHOOSE i \in 1..Len(c.events) : c.events[i].ev = "reveal"].newly
  ELSE <<>>

\* C1: reveal monotonicity.  Whatever is called (revealAround with any centre
\* and radius, findPath, a right click, a driver tick), a mask entry that is 1
\* before the step is 1 after it.
C1_RevealMonotonic ==
  [][\A c \in Cells(world) : revealed[c] = 1 => revealed'[c] = 1]_vars

\* revealAround has run over a cell that was revealed before, after the driver
\* has moved, and the cell is still revealed
C1_Witness ==
  /\ call.op = "revealAround"
  /\ inBounds(world, call.center.x, call.center.y)
  /\ ~(getIndex(world.width, call.center.x, call.center.y)
         \in {call.newly[i] : i \in 1..Len(call.newly)})
  /\ revealed[getIndex(world.width, call.center.x, call.center.y)] = 1
  /\ pos # cellToWorld(world, currentCell.x, currentCell.y)

\* C2: the list revealAround returns has no duplicates and holds exactly the
\* indices whose mask entry the call changed from 0 to 1, so it never holds an
\* index revealed before the call, and over the whole run no index is
\* returned more than once.
C2_NewlyExact ==
  /\ [](\A c \in Cells(world) : returned[c] <= 1)
  /\ [][LET newly == NewlyOf(call')
        IN /\ \A i \in 1..Len(newly), j \in 1..Len(newly) :
                i # j => newly[i] # newly[j]
           /\ {newly[i] : i \in 1..Len(newly)}
                = {c \in Cells(world) : revealed[c] = 0 /\ revealed'[c] = 1}]_vars

\* a call whose circle covers both a cell revealed earlier, which it leaves
\* out of the list, and a cell it reveals
C2_Witness ==
  /\ call.op = "revealAround"
  /\ call.radius > 0
  /\ Len(call.newly) > 0
  /\ inBounds(world, call.center.x, call.center.y)
  /\ ~(getIndex(world.width, call.center.x, call.center.y)
         \in {call.newly[i] : i \in 1..Len(call.newly)})

\* C3: in every path findPath returns, consecutive points are neighbours
\* (4-connected without allowDiagonal, 8-connected with it) and their
\* heights differ by at most options.maxSlope.
C3_StepsValid ==
  Returned =>
    \A i \in 1..(Len(call.result.path) - 1) :
      /\ Adjacent(call.result.path[i], call.result.path[i + 1],
                  call.options.allowDiagonal)
      /\ Abs(HeightOf(world, call.result.path[i])
             - HeightOf(world, call.result.path[i + 1])) <= call.options.maxSlope

\* a returned path that takes a diagonal step and climbs exactly maxSlope
C3_Witness ==
  /\ Returned
  /\ \E i \in 1..(Len(call.result.path) - 1) :
       StepCost(call.result.path[i], call.result.path[i + 1]) = DiagCost
  /\ \E i \in 1..(Len(call.result.path) - 1) :
       HeightOf(world, call.result.path[i + 1])
         - HeightOf(world, call.result.path[i]) = call.options.maxSlope

\* C4 as claimed: every point of a returned path, the start included, is
\* passable at call time.
C4_AllPointsPassable ==
  Returned =>
    \A i \in 1..Len(call.result.path) :
      PassableSpec(world, revealed, call.options.blockedMask,
                   call.result.path[i].x, call.result.path[i].y)

\* C4 amended: every point of a returned path after the first is passable at
\* call time, and the first point, the start, is in bounds.
C4_PointsAfterStartPassable ==
  Returned =>
    /\ InGrid(world, call.result.path[1])
    /\ \A i \in 2..Len(call.result.path) :
         PassableSpec(world, revealed, call.options.blockedMask,
                      call.result.path[i].x, call.result.path[i].y)

\* a path of three or more points returned from a start that is not passable
C4_Witness ==
  /\ Returned
  /\ Len(call.result.path) >= 3
  /\ ~PassableSpec(world, revealed, call.options.blockedMask,
                   call.start.x, call.start.y)

\* C5: the cost of a returned path is the least cost of any sequence of
\* allowed steps from start to goal.
C5_PathOptimal ==
  Returned =>
    PathCost(call.result.path)
      = MinCostOfCall

\* a returned path that had to go around: it costs more than the octile
\* distance, with diagonals and without
C5_Witness ==
  /\ Returned
  /\ call.options.allowDiagonal
  /\ PathCost(call.result.path)
       > heuristic(call.start.x, call.start.y, call.goal.x, call.goal.y)
  /\ Len(call.result.path) >= 4

\* the endpoints of a call that must fail at once
InvalidEndpoints ==
  \/ ~InGrid(world, call.start)
  \/ ~InGrid(world, call.goal)
  \/ ~PassableSpec(world, revealed, call.options.blockedMask,
                   call.goal.x, call.goal.y)

\* C6: with the start or the goal out of bounds, or the goal unrevealed,
\* blocked, Water or under an object, findPath returns null and has pushed no
\* node.
C6_InvalidEndpointFails ==
  (call.op = "findPath" /\ InvalidEndpoints) =>
    (~call.result.found /\ call.result.pushes = 0 /\ call.result.pops = 0)

\* a call from a passable start to a revealed goal under an object
C6_Witness ==
  /\ call.op = "findPath"
  /\ InGrid(world, call.start) /\ InGrid(world, call.goal)
  /\ revealed[call.goal.x + call.goal.y * world.width] = 1
  /\ cellHasObject(world, call.goal.x, call.goal.y)
  /\ ~call.result.found

\* C7: with both endpoints in bounds and the goal passable, findPath returns
\* a path whenever some sequence of allowed steps leads from start to goal;
\* a null after a search means there is none.
C7_Complete ==
  (call.op = "findPath" /\ ~InvalidEndpoints) =>
    (MinCostOfCall < Inf
       => call.result.found)

\* a returned diagonal step between two corner cells that are both impassable
C7_Witness ==
  /\ Returned
  /\ \E i \in 1..(Len(call.result.path) - 1) :
       LET a == call.result.path[i]
           b == call.result.path[i + 1]
       IN /\ StepCost(a, b) = DiagCost
          /\ ~PassableSpec(world, revealed, call.options.blockedMask, a.x, b.y)
          /\ ~PassableSpec(world, revealed, call.options.blockedMask, b.x, a.y)

\* C8: a returned path starts at start, ends at goal, holds no cell twice,
\* and is the single point when start = goal.
C8_EndpointsAndSimple ==
  Returned =>
    /\ Len(call.result.path) >= 1
    /\ call.result.path[1] = call.start
    /\ call.result.path[Len(call.result.path)] = call.goal
    /\ \A i, j \in 1..Len(call.result.path) :
         call.result.path[i] = call.result.path[j] => i = j
    /\ (call.start = call.goal => Len(call.result.path) = 1)

\* a returned path of four or more points
C8_Witness == Returned /\ Len(call.result.path) >= 4

\* C9: isCellPassable is true exactly for a cell in bounds, revealed, not
\* set in a supplied blockedMask, not Water and under no object.
C9_PassableIff ==
  call.op = "isCellPassable" =>
    (call.result <=> PassableSpec(world, revealed, call.options.blockedMask,
                                  call.x, call.y))

\* a cell set in the blocked mask found passable when no mask is supplied
C9_Witness ==
  /\ call.op = "isCellPassable"
  /\ call.result
  /\ call.options.blockedMask = Null
  /\ blockedMask[call.x + call.y * world.width] = 1

\* C10: in the driver, whenever revealAround returns a non-empty list while a
\* multi-step path is in progress (path points remain after the movement of
\* the tick) and targetCell is set, the very next thing the tick does is call
\* findPath with start = the agent's current cell and goal = that targetCell;
\* no movement and no other reveal comes in between.
C10_RepathAfterReveal ==
  call.op = "updateMovement" =>
    \A i \in 1..Len(call.events) :
      ( /\ call.events[i].ev = "reveal"
        /\ call.events[i].newly # <<>>
        /\ call.events[i].inProgress
        /\ call.events[i].target # Null )
      => /\ i < Len(call.events)
         /\ call.events[i + 1].ev = "findPath"
         /\ call.events[i + 1].start = currentCell
         /\ call.events[i + 1].start = call.events[i].center
         /\ call.events[i + 1].goal = call.events[i].target

\* a tick that enters a cell short of the goal, reveals new cells there and
\* replans from that cell to the same goal
C10_Witness ==
  /\ call.op = "updateMovement"
  /\ \E i \in 1..(Len(call.events) - 1) :
       /\ call.events[i].ev = "reveal"
       /\ call.events[i].newly # <<>>
       /\ call.events[i].inProgress
       /\ call.events[i].target # Null
       /\ call.events[i + 1].ev = "findPath"
       /\ call.events[i + 1].start # call.events[i + 1].goal
  /\ targetCell # Null
  /\ Len(path) > 1

\* the findPath call of the last driver operation, if it made one
LastFindPath ==
  IF call.op \in {"handleRightClick", "updateMovement"}
     /\ Len(call.events) > 0
     /\ call.events[Len(call.events)].ev = "findPath"
  THEN call.events[Len(call.events)]
  ELSE Null

\* C11: whenever findPath, called from a right click or from a repath,
\* returns null or a path of fewer than 2 points, the operation ends with path
\* empty, targetCell null and needsRepath false.
C11_FailureClears ==
  (LastFindPath # Null /\ (~LastFindPath.found \/ LastFindPath.points < 2))
    => path = <<>> /\ targetCell = Null /\ needsRepath = FALSE

\* a repath in a tick came back without a usable path while a goal was pending
C11_Witness ==
  /\ call.op = "updateMovement"
  /\ LastFindPath # Null
  /\ (~LastFindPath.found \/ LastFindPath.points < 2)
  /\ path = <<>>
  /\ targetCell = Null

\* local slope: the largest height difference to an axis neighbour in the grid
SlopeSpec(w, x, y) ==
  LET near == {q \in GridPoints(w) : Abs(q.x - x) + Abs(q.y - y) = 1}
  IN IF near = {} THEN 0
     ELSE CHOOSE d \in {Abs(HeightOf(w, Point(x, y)) - HeightOf(w, q)) : q \in near} :
            \A q \in near : Abs(HeightOf(w, Point(x, y)) - HeightOf(w, q)) <= d

\* a cell qualifies as a spawn
Qualifies(w, blocked, maxSlope, seaLevel, p) ==
  /\ InGrid(w, p)
  /\ HeightOf(w, p) >= seaLevel
  /\ w.ground[getIndex(w.width, p.x, p.y)] # Water
  /\ blocked[getIndex(w.width, p.x, p.y)] = 0
  /\ ~\E i \in 1..Len(w.objects) : w.objects[i].x = p.x /\ w.objects[i].y = p.y
  /\ SlopeSpec(w, p.x, p.y) <= maxSlope

\* the qualifying cells of the grid for the arguments of the findSpawn call
QualifyingCells ==
  {p \in GridPoints(world) :
     Qualifies(world, blockedMask, call.maxSlope, call.seaLevel, p)}

\* Chebyshev distance of p to the centre cell
RingOf(w, p) ==
  Max(Abs(p.x - (w.width \div 2)), Abs(p.y - (w.height \div 2)))

\* C12: whenever at least one cell of the grid qualifies, the cell findSpawn
\* returns is in bounds, at or above seaLevel, not Water, not blocked, free of
\* objects and of local slope at most maxSlope.
C12_SpawnValid ==
  (call.op = "findSpawn" /\ QualifyingCells # {})
    => Qualifies(world, blockedMask, call.maxSlope, call.seaLevel,
                 call.result.cell)

\* the centre cell is too steep and the spawn is found further out
C12_Witness ==
  /\ call.op = "findSpawn"
  /\ call.result.cell \in QualifyingCells
  /\ RingOf(world, call.result.cell) > 0
  /\ SlopeSpec(world, world.width \div 2, world.height \div 2) > call.maxSlope

\* C13: findSpawn falls back to (0,0) only when no cell of the grid
\* qualifies: on every grid, square or not, every cell lies within
\* max(width, height) - 1 rings of the centre, so no qualifying cell is missed.
C13_FallbackOnlyWhenNone ==
  call.op = "findSpawn" =>
    /\ \A p \in GridPoints(world) :
         RingOf(world, p) <= Max(world.width, world.height) - 1
    /\ call.result.fallback <=> QualifyingCells = {}
    /\ call.result.fallback => call.result.cell = Point(0, 0)

\* on a grid that is not square the only qualifying cell lies in the last
\* ring, max(width, height) - 1 from the centre, and is found
C13_Witness ==
  /\ call.op = "findSpawn"
  /\ world.width # world.height
  /\ ~call.result.fallback
  /\ QualifyingCells = {call.result.cell}
  /\ RingOf(world, call.result.cell) = Max(world.width, world.height) - 1
  /\ RingOf(world, call.result.cell) > Min(world.width, world.height) - 1

\* C14: the cell findSpawn returns is nearest to the centre in Chebyshev
\* distance among the qualifying cells, and first in row-major order
\* (smallest y, then smallest x) among the qualifying cells at that distance.
C14_NearestRowMajorFirst ==
  (call.op = "findSpawn" /\ QualifyingCells # {}) =>
    \A p \in QualifyingCells :
      \/ RingOf(world, call.result.cell) < RingOf(world, p)
      \/ /\ RingOf(world, call.result.cell) = RingOf(world, p)
         /\ \/ call.result.cell.y < p.y
            \/ call.result.cell.y = p.y /\ call.result.cell.x <= p.x

\* two qualifying cells share the nearest ring, one above-right and one
\* below-left of the other, and the upper one is returned
C14_Witness ==
  /\ call.op = "findSpawn"
  /\ call.result.cell \in QualifyingCells
  /\ \E p \in QualifyingCells :
       /\ RingOf(world, p) = RingOf(world, call.result.cell)
       /\ p.y > call.result.cell.y
       /\ p.x < call.result.cell.x

\* C15: reveal idempotence.  A revealAround call that repeats the centre and
\* radius of the call just before it returns an empty list and leaves the
\* mask as that call left it.
C15_RevealIdempotent ==
  [][(call'.op = "revealAround" /\ call'.repeated)
       => (call'.newly = <<>> /\ revealed' = revealed)]_vars

\* the second of two equal calls whose circle holds cells of the grid
C15_Witness ==
  /\ call.op = "revealAround"
  /\ call.repeated
  /\ call.radius > 0
  /\ call.newly = <<>>
  /\ \E p \in GridPoints(world) :
       /\ (p.x - call.center.x) * (p.x - call.center.x)
            + (p.y - call.center.y) * (p.y - call.center.y)
            <= call.radius * call.radius
       /\ revealed[getIndex(world.width, p.x, p.y)] = 1

\* C16: circular reveal.  After revealAround(center, radius) a cell of the
\* grid is revealed exactly when it was revealed before or its squared
\* distance to the centre is at most radius squared, wherever the centre lies;
\* the call changes nothing but the mask.
C16_CircularReveal ==
  [][call'.op = "revealAround" =>
       /\ \A p \in GridPoints(world) :
            revealed'[getIndex(world.width, p.x, p.y)] = 1
              <=> \/ revealed[getIndex(world.width, p.x, p.y)] = 1
                  \/ (p.x - call'.center.x) * (p.x - call'.center.x)
                       + (p.y - call'.center.y) * (p.y - call'.center.y)
                       <= call'.radius * call'.radius
       /\ DOMAIN revealed' = DOMAIN revealed
       /\ UNCHANGED <<world, blockedMask, currentCell, pos, targetCell, path,
                      pathStep, needsRepath, minCost>>]_vars

\* a call centred outside the grid reveals a cell at the edge and leaves a
\* cell of its square that is outside its circle unrevealed
C16_Witness ==
  /\ call.op = "revealAround"
  /\ ~inBounds(world, call.center.x, call.center.y)
  /\ call.radius > 0
  /\ call.newly # <<>>
  /\ \E p \in GridPoints(world) :
       /\ Abs(p.x - call.center.x) <= call.radius
       /\ Abs(p.y - call.center.y) <= call.radius
       /\ revealed[getIndex(world.width, p.x, p.y)] = 0

\* every neighbour of the goal of the call, 4 or 8 of them as allowDiagonal
\* says, is impassable; a neighbour outside the grid is impassable
GoalSurrounded ==
  /\ call.op = "findPath"
  /\ InGrid(world, call.start)
  /\ InGrid(world, call.goal)
  /\ \A dx \in {-1, 0, 1}, dy \in {-1, 0, 1} :
       ( /\ dx # 0 \/ dy # 0
         /\ call.options.allowDiagonal \/ dx = 0 \/ dy = 0 )
       => ~PassableSpec(world, revealed, call.options.blockedMask,
                        call.goal.x + dx, call.goal.y + dy)

C18_StandableIffPassable ==
  call.op = "isCellStandable" => (call.result <=> call.passable)

\* C18, amended: isCellPassable(x, y) is true exactly when the cell is in
\* bounds, revealed, and isCellStandable(x, y) is true; isCellStandable by
\* itself does not look at the reveal mask.
C18_StandableAndRevealedIffPassable ==
  call.op = "isCellStandable" =>
    ( ( /\ inBounds(world, call.x, call.y)
        /\ revealed[getIndex(world.width, call.x, call.y)] = 1
        /\ call.result )
      <=> call.passable )

\* an unrevealed cell of the grid that isCellStandable accepts and
\* isCellPassable refuses
C18_Witness ==
  /\ call.op = "isCellStandable"
  /\ inBounds(world, call.x, call.y)
  /\ revealed[getIndex(world.width, call.x, call.y)] = 0
  /\ call.result
  /\ ~call.passable

C20_ObjectsPlaced ==
  call.op = "generateWorld" =>
    /\ \A k \in 1..Len(world.objects) :
         LET o == world.objects[k]
             g == world.ground[getIndex(world.width, o.x, o.y)]
         IN /\ o.x >= 0 /\ o.x < world.width
            /\ o.y >= 0 /\ o.y < world.height
            /\ g # Water
            /\ o.type = "tree" => g = Soil
            /\ o.type = "rock" => g = Rock
    /\ \A i \in DOMAIN world.ground :
         world.ground[i] = Water <=> world.heightmap[i] < call.config.seaLevel

\* a generated world with water and land, a tree and a rock
C20_Witness ==
  /\ call.op = "generateWorld"
  /\ \E i \in DOMAIN world.ground : world.ground[i] = Water
  /\ \E k \in 1..Len(world.objects) : world.objects[k].type = "tree"
  /\ \E k \in 1..Len(world.objects) : world.objects[k].type = "rock"

\* an integer literal: an optional sign and then digits only
IsInteger(text) ==
  LET body == IF text # <<>> /\ text[1] = "-" THEN Tail(text) ELSE text
  IN body # <<>> /\ \A i \in 1..Len(body) : isDigit(body[i])

\* value of an integer literal
RECURSIVE ValueOf(_, _)
ValueOf(text, acc) ==
  IF text = <<>> THEN acc
  ELSE IF text[1] = "-" THEN 0 - ValueOf(Tail(text), 0)
  ELSE ValueOf(Tail(text), 10 * acc + digitOf(text[1]))

\* the cell a parameter names: two integer literals with one comma between
NamesCell(spawnParam, cell) ==
  /\ ~spawnParam.null
  /\ \E i \in 1..Len(spawnParam.text) :
       /\ spawnParam.text[i] = ","
       /\ IsInteger(SubSeq(spawnParam.text, 1, i - 1))
       /\ IsInteger(SubSeq(spawnParam.text, i + 1, Len(spawnParam.text)))
       /\ cell.x = ValueOf(SubSeq(spawnParam.text, 1, i - 1), 0)
       /\ cell.y = ValueOf(SubSeq(spawnParam.text, i + 1,
                                  Len(spawnParam.text)), 0)

IsToken(spawnParam) == ~spawnParam.null /\ spawnParam.text = ForestToken

\* C21: getSpawnOverride returns a coordinate pair only if the parameter
\* names that cell and the cell is spawnable; a missing, malformed,
\* non-numeric or out-of-range parameter gives null, and the driver then
\* spawns at the cell findSpawn finds.
C21_OverrideSafe ==
  (call.op = "getSpawnOverride" /\ ~IsToken(call.spawnParam)) =>
    /\ call.result # Null =>
         /\ NamesCell(call.spawnParam, call.result)
         /\ isCellSpawnable(world, call.result.x, call.result.y, MaxSlope,
                            SeaLevel, blockedMask)
    /\ call.result = Null =>
         currentCell = findSpawn(world, MaxSlope, SeaLevel, blockedMask)

\* What holds of the code: the pair returned is spawnable, and it is the pair
\* of the numbers that parseInt reads at the start of the two parts.
C21_OverrideSpawnable ==
  (call.op = "getSpawnOverride" /\ call.result # Null) =>
    /\ isCellSpawnable(world, call.result.x, call.result.y, MaxSlope,
                       SeaLevel, blockedMask)
    /\ currentCell = call.result

\* a parameter that names a spawnable cell is accepted, and one that names a
\* cell outside the grid is refused
C21_Witness ==
  /\ call.op = "getSpawnOverride"
  /\ call.result # Null
  /\ NamesCell(call.spawnParam, call.result)
  /\ call.result # findSpawn(world, MaxSlope, SeaLevel, blockedMask)

\* C22: a config with seaLevel >= mountainHeight, width <= 0 or height <= 0
\* is refused: generateWorld returns a WorldData only for a config with
\* seaLevel < mountainHeight and positive width and height.
C22_MisconfigRejected ==
  (call.op = "generateWorld" /\ ~call.thrown) =>
    /\ call.config.seaLevel < call.config.mountainHeight
    /\ call.config.width > 0
    /\ call.config.height > 0

ReaderOps ==
  {"probe", "isCellPassableProbe", "isCellStandableProbe",
   "isCellSpawnableProbe", "findSpawnProbe", "handleRightClick"}

HasReveal(c) ==
  \/ c.op = "revealAround"
  \/ c.op = "updateMovement" /\ \E k \in 1..Len(c.events) :
                                   c.events[k].ev = "reveal"

C24_PopsOnce ==
  call.op = "findPath" =>
    LET r == call.result
    IN /\ r.pops = Len(r.popLog)
       /\ \A i \in 1..Len(r.popLog), j \in 1..Len(r.popLog) :
            r.popLog[i] = r.popLog[j] => i = j
       /\ r.pops <= world.width * world.height
       /\ r.pushes <= world.width * world.height

\* a search on the full grid that fails after it has pushed and popped all
\* but at most three cells
C24_Witness ==
  /\ call.op = "findPath"
  /\ world.height = MaxHeight
  /\ ~call.result.found
  /\ call.result.pops >= MaxWidth * MaxHeight - 3
  /\ call.result.pushes = call.result.pops

\* largest height difference to an axis neighbour inside the grid
SlopeIn(config, heightmap, i) ==
  LET x == i % config.width
      y == i \div config.width
      near == {j \in DOMAIN heightmap :
                 Abs((j % config.width) - x) + Abs((j \div config.width) - y) = 1}
  IN IF near = {} THEN 0
     ELSE CHOOSE d \in {Abs(heightmap[i] - heightmap[j]) : j \in near} :
            \A j \in near : Abs(heightmap[i] - heightmap[j]) <= d

\* some other cell of the 5x5 square around cell i lies below the sea level
NearSeaIn(config, heightmap, i) ==
  \E j \in DOMAIN heightmap :
    /\ j # i
    /\ Abs((j % config.width) - (i % config.width)) <= 2
    /\ Abs((j \div config.width) - (i \div config.width)) <= 2
    /\ heightmap[j] < config.seaLevel

IsWaterCell(config, heightmap, i) == heightmap[i] < config.seaLevel

IsRockCell(config, heightmap, i) ==
  /\ ~IsWaterCell(config, heightmap, i)
  /\ \/ heightmap[i] > config.mountainHeight
     \/ SlopeIn(config, heightmap, i) > config.slopeRock

\* the cells whose ground the sand roll decides
SandRolled(config, heightmap, i) ==
  /\ ~IsWaterCell(config, heightmap, i)
  /\ ~IsRockCell(config, heightmap, i)
  /\ NearSeaIn(config, heightmap, i)
  /\ heightmap[i] < config.seaLevel + config.sandHeight

\* the n-th value of the stream of the seed, n >= 1
RECURSIVE DrawN(_, _)
DrawN(state, n) ==
  IF n = 1 THEN mulberry32(state).value ELSE DrawN(mulberry32(state).t, n - 1)

\* the roll of cell i: one value of the object stream per rolled cell, in
\* row-major order
SandRoll(config, heightmap, i) ==
  DrawN(ToWord(config.seed + 9001),
        Cardinality({j \in 0..i : SandRolled(config, heightmap, j)}))

GroundOf(config, heightmap, i) ==
  IF IsWaterCell(config, heightmap, i) THEN Water
  ELSE IF IsRockCell(config, heightmap, i) THEN Rock
  ELSE IF /\ SandRolled(config, heightmap, i)
          /\ rollBelow(SandRoll(config, heightmap, i), config.sandChance)
    THEN Sand
  ELSE Soil

\* C25: every cell of a generated world is Water if its height is below
\* seaLevel; else Rock if its height is above mountainHeight or its slope
\* above slopeRock; else Sand if a cell of the 5x5 square around it is below
\* seaLevel, its own height is below seaLevel + sandHeight and its roll is
\* below sandChance; else Soil.
C25_GroundPriority ==
  call.op = "generateWorld" =>
    \A i \in DOMAIN world.ground :
      world.ground[i] = GroundOf(call.config, world.heightmap, i)

\* a world with water, rock by slope, sand two cells from the water and a
\* shore cell whose roll left it soil
C25_Witness ==
  /\ call.op = "generateWorld"
  /\ \E i \in DOMAIN world.ground :
       /\ world.ground[i] = Sand
       /\ ~isNearSeaAdjacent(world.heightmap, world.width, world.height,
                             i % world.width, i \div world.width,
                             call.config.seaLevel, 2)
  /\ \E i \in DOMAIN world.ground :
       /\ world.ground[i] = Soil
       /\ SandRolled(call.config, world.heightmap, i)
  /\ \E i \in DOMAIN world.ground :
       /\ world.ground[i] = Rock
       /\ world.heightmap[i] <= call.config.mountainHeight

\* C26: the stream objectRng is drawn from by object placement only, in
\* row-major order of the cells: every draw of a call is a tree or rock
\* decision, and the draws are in the order of the scan.
C26_DedicatedStream ==
  call.op = "generateWorld" =>
    /\ \A n \in 1..Len(call.rolls) : call.rolls[n].phase \in {"tree", "rock"}
    /\ \A n \in 1..(Len(call.rolls) - 1) :
         call.rolls[n].index <= call.rolls[n + 1].index

\* What holds of the code: the sand rolls of phase 2 come first, in row-major
\* order, and the tree and rock rolls of phase 3 follow, in row-major order.
C26_SandThenObjects ==
  call.op = "generateWorld" =>
    \A n \in 1..(Len(call.rolls) - 1) :
      LET a == call.rolls[n]
          b == call.rolls[n + 1]
      IN /\ b.phase = "sand" => a.phase = "sand"
         /\ (a.phase = "sand") = (b.phase = "sand") => a.index <= b.index

\* C27: after every handleRightClick and every updateMovement tick,
\* targetCell is null exactly when path is empty; while a goal is pending the
\* path has at least 2 points and ends in targetCell, 1 <= pathStep <
\* path.length, and needsRepath is false.
C27_DriverConsistent ==
  /\ (targetCell = Null) <=> (path = <<>>)
  /\ targetCell # Null =>
       /\ Len(path) >= 2
       /\ path[Len(path)] = targetCell
       /\ 1 <= pathStep
       /\ pathStep < Len(path)
       /\ ~needsRepath

\* a goal still pending after a tick that revealed cells and found a new
\* path to it
C27_Witness ==
  /\ call.op = "updateMovement"
  /\ targetCell # Null
  /\ \E k \in 1..Len(call.events) :
       call.events[k].ev = "findPath" /\ call.events[k].found

\* C28: once a request is accepted and no other arrives, the driver reaches
\* a state with path empty and targetCell null.
C28_NavigationEnds == (targetCell # Null) ~> (targetCell = Null /\ path = <<>>)

\* the end of a navigation by a tick that moved the agent
C28_Witness ==
  /\ call.op = "updateMovement"
  /\ call.events # <<>>
  /\ call.events[1].ev = "move"
  /\ targetCell = Null
  /\ path = <<>>
  /\ \E i \in Cells(world) : returned[i] > 0 /\
       outsideCircle(CellX(world, i) - currentCell.x,
                     CellY(world, i) - currentCell.y, revealRadius)

\* C29: from start-up on, after every tick of the driver every cell of the
\* grid within Euclidean distance revealRadius of currentCell is revealed,
\* currentCell among them.
C29_RevealedAroundAgent ==
  /\ inBounds(world, currentCell.x, currentCell.y)
  /\ revealed[getIndex(world.width, currentCell.x, currentCell.y)] = 1
  /\ \A i \in Cells(world) :
       (CellX(world, i) - currentCell.x) * (CellX(world, i) - currentCell.x)
         + (CellY(world, i) - currentCell.y) * (CellY(world, i) - currentCell.y)
         <= revealRadius * revealRadius
       => revealed[i] = 1

\* a tick that took the agent into another cell and revealed cells there
C29_Witness ==
  /\ call.op = "updateMovement"
  /\ \E k \in 1..Len(call.events) :
       /\ call.events[k].ev = "reveal"
       /\ call.events[k].center = currentCell
       /\ call.events[k].newly # <<>>

\* a cell the agent may stand on: in bounds, not Water, not in the blocked
\* mask, without an object
Walkable(cell) ==
  /\ inBounds(world, cell.x, cell.y)
  /\ getGround(world, cell.x, cell.y) # Water
  /\ blockedMask[getIndex(world.width, cell.x, cell.y)] # 1
  /\ ~cellHasObject(world, cell.x, cell.y)

\* the spawn cell was spawnable: an accepted override always is, and findSpawn
\* returns a spawnable cell whenever the world has one
SpawnWasSpawnable ==
  \E cell \in {findSpawn(world, MaxSlope, SeaLevel, blockedMask)} :
    isCellSpawnable(world, cell.x, cell.y, MaxSlope, SeaLevel, blockedMask)

\* C30: if the spawn cell was spawnable, then after every tick of the driver
\* currentCell is in bounds, not Water, not in the blocked mask and without
\* an object, and so is every start the driver hands to findPath.
C30_AgentOnPassable ==
  SpawnWasSpawnable =>
    /\ Walkable(currentCell)
    /\ call.op \in {"handleRightClick", "updateMovement"} =>
         \A k \in 1..Len(call.events) :
           call.events[k].ev = "findPath" => Walkable(call.events[k].start)

====
